---- MODULE Spec2Model ----
(***************************************************************************)
(* A model of scripts/summarization.py: the dataset adapter, the batch     *)
(* collator, Summarizer.forward (teacher forcing), the ROUGE averaging of  *)
(* validation_step, the metric reduction of validation_epoch_end, the      *)
(* checkpoint retention configured in main, and the phases of main.        *)
(*                                                                         *)
(* Tensors are sequences of rows, a row is a sequence of token ids.        *)
(* Metric values are exact rationals <<numerator, denominator>>: float     *)
(* rounding is not modelled.                                               *)
(***************************************************************************)
EXTENDS Integers, Sequences, FiniteSets, TLC

VARIABLES
    \* ---- data pipeline: SummarizationDataset, collate_fn, forward ----
    tokenizer,              \* self.tokenizer, selected by --tokenizer
    max_input_len,          \* args.max_input_len
    max_output_len,         \* args.max_output_len
    batch,                  \* the items __getitem__ returned for this batch
    input_ids,              \* batch[0] after collate_fn
    output_ids,             \* batch[1] after collate_fn
    attention_mask,
    decoder_input_ids,
    decoder_attention_mask,
    labels,
    gold_ids,               \* what validation_step hands to batch_decode
    pc,                     \* position of the data pipeline
    \* ---- validation_step: ROUGE averaging ----
    gold_str, generated_str, step_out, vpc,
    \* ---- validation_epoch_end on every distributed worker ----
    use_ddp, world_size, outputs, wpc, name_idx, metric, metrics,
    reduce_buf, result,
    \* ---- ModelCheckpoint configured in main ----
    disable_checkpointing, best_k_models, seen_losses,
    \* ---- main ----
    test_only, max_epochs, phase, started, executed, epoch, fit_done, raised

dataVars  == <<tokenizer, max_input_len, max_output_len, batch, input_ids,
               output_ids, attention_mask, decoder_input_ids,
               decoder_attention_mask, labels, gold_ids, pc>>
rougeVars == <<gold_str, generated_str, step_out, vpc>>
epochVars == <<use_ddp, world_size, outputs, wpc, name_idx, metric, metrics,
               reduce_buf, result>>
ckptVars  == <<disable_checkpointing, best_k_models, seen_losses>>
mainVars  == <<test_only, max_epochs, phase, started, executed, epoch, fit_done,
               raised>>
vars      == <<dataVars, rougeVars, epochVars, ckptVars, mainVars>>

\* what an action of one part leaves alone
otherDataVars  == <<rougeVars, epochVars, ckptVars, mainVars>>
otherRougeVars == <<dataVars, epochVars, ckptVars, mainVars>>
otherEpochVars == <<dataVars, rougeVars, ckptVars, mainVars>>
otherCkptVars  == <<dataVars, rougeVars, epochVars, mainVars>>
otherMainVars  == <<dataVars, rougeVars, epochVars, ckptVars>>

(***************************************************************************)
(* Bounds of the model.                                                    *)
(***************************************************************************)
MaxTextLen   == 2      \* words in an article or an abstract
MaxBatchSize == 2      \* args.batch_size, examples per batch
MaxInputLen  == 4      \* largest args.max_input_len tried
MaxOutputLen == 4      \* largest args.max_output_len tried

(***************************************************************************)
(* Helpers on sequences.                                                   *)
(***************************************************************************)
Min(a, b) == IF a < b THEN a ELSE b

Max(a, b) == IF a < b THEN b ELSE a

RECURSIVE MaxLen(_)
MaxLen(seqs) ==
    IF seqs = <<>> THEN 0 ELSE Max(Len(Head(seqs)), MaxLen(Tail(seqs)))

Repeat(v, n) == [j \in 1..n |-> v]

SeqsUpTo(S, n) == UNION {[1..k -> S] : k \in 0..n}

(***************************************************************************)
(* Tokenizers.  The pretrained tokenizer is chosen by --tokenizer; it      *)
(* brings its own pad_token_id and its own special tokens.  The default    *)
(* facebook/bart-base wraps a text in <s> (0) and </s> (2) and pads with   *)
(* 1; a tokenizer of the t5 family appends </s> (1) and pads with 0.       *)
(***************************************************************************)
BartTokenizer ==
    [name |-> "facebook/bart-base", pad_token_id |-> 1,
     prefix |-> <<0>>, suffix |-> <<2>>]

T5Tokenizer ==
    [name |-> "t5-small", pad_token_id |-> 0,
     prefix |-> <<>>, suffix |-> <<1>>]

Tokenizers == {BartTokenizer, T5Tokenizer}

NumSpecial(tok) == Len(tok.prefix) + Len(tok.suffix)

SpecialIds(tok) ==
    {tok.pad_token_id} \cup {tok.prefix[i] : i \in 1..Len(tok.prefix)}
                       \cup {tok.suffix[i] : i \in 1..Len(tok.suffix)}

\* word ids a text can hold (none of them a special token)
ArticleWords  == {3}
AbstractWords == {3, 4}

Articles  == SeqsUpTo(ArticleWords, MaxTextLen)
Abstracts == SeqsUpTo(AbstractWords, MaxTextLen)

\* hf_dataset[idx] ranges over these entries: an article is at least as
\* long as its abstract
Entries ==
    {e \in [article : Articles, abstract : Abstracts] :
        Len(e.article) >= Len(e.abstract)}

\* tokenizer.encode(text, truncation=True, max_length=n): the text's ids
\* wrapped in the special tokens, the text cut so that the whole fits n
encode(tok, text, max_length) ==
    tok.prefix \o SubSeq(text, 1, Min(Len(text), max_length - NumSpecial(tok)))
               \o tok.suffix

\* tokenizer.batch_decode(ids, skip_special_tokens=True): one word sequence
\* per row, the special tokens dropped
batch_decode(tok, ids) ==
    [r \in 1..Len(ids) |-> SelectSeq(ids[r], LAMBDA t : t \notin SpecialIds(tok))]

(***************************************************************************)
(* SummarizationDataset.__getitem__                                        *)
(***************************************************************************)
getitem_one_len(entry, tok, in_len, out_len) ==
    <<encode(tok, entry.article, in_len), encode(tok, entry.abstract, in_len)>>

getitem(entry, tok, in_len, out_len) ==
    <<encode(tok, entry.article, in_len), encode(tok, entry.abstract, out_len)>>

(***************************************************************************)
(* SummarizationDataset.collate_fn                                         *)
(***************************************************************************)
collate_pad_token_id == 1

pad_sequence_left(seqs, padding_value) ==
    [r \in 1..Len(seqs) |->
        Repeat(padding_value, MaxLen(seqs) - Len(seqs[r])) \o seqs[r]]

\* torch.nn.utils.rnn.pad_sequence(seqs, batch_first=True, padding_value)
pad_sequence(seqs, padding_value) ==
    [r \in 1..Len(seqs) |->
        seqs[r] \o Repeat(padding_value, MaxLen(seqs) - Len(seqs[r]))]

Column(items, k) == [r \in 1..Len(items) |-> items[r][k]]

collate_fn(items) ==
    <<pad_sequence(Column(items, 1), collate_pad_token_id),
      pad_sequence(Column(items, 2), collate_pad_token_id)>>

(***************************************************************************)
(* Summarizer.forward                                                      *)
(***************************************************************************)
IGNORE_INDEX == 0 - 100

\* attention_mask = ones; attention_mask[input_ids == pad] = 0
AttentionMask(ids, pad) ==
    [r \in 1..Len(ids) |->
        [j \in 1..Len(ids[r]) |-> IF ids[r][j] = pad THEN 0 ELSE 1]]

\* output_ids[:, :-1]
DecoderInputIds(ids) ==
    [r \in 1..Len(ids) |-> SubSeq(ids[r], 1, Len(ids[r]) - 1)]

\* decoder_input_ids != pad
DecoderAttentionMask(dec, pad) ==
    [r \in 1..Len(dec) |-> [j \in 1..Len(dec[r]) |-> dec[r][j] # pad]]

\* A tensor is a value together with the storage it lives in: a slice is a
\* view of its base storage, clone() gives the value a storage of its own.
LabelsNoShift(ids) ==
    [storage |-> "output_ids",
     data |-> [r \in 1..Len(ids) |-> SubSeq(ids[r], 1, Len(ids[r]) - 1)]]

\* output_ids[:, 1:]
LabelsSlice(ids) ==
    [storage |-> "output_ids",
     data |-> [r \in 1..Len(ids) |-> SubSeq(ids[r], 2, Len(ids[r]))]]

clone_view(t) == t

clone(t) == [storage |-> "labels", data |-> t.data]

\* labels[labels == pad] = -100
MaskedFill(data, pad) ==
    [r \in 1..Len(data) |->
        [j \in 1..Len(data[r]) |->
            IF data[r][j] = pad THEN IGNORE_INDEX ELSE data[r][j]]]

\* what the masked assignment leaves in output_ids: it writes through to
\* columns 1: of output_ids when labels is a view of it
WriteThrough(ids, lab, masked) ==
    IF lab.storage = "output_ids"
    THEN [r \in 1..Len(ids) |-> <<ids[r][1]>> \o masked[r]]
    ELSE ids

(***************************************************************************)
(* The data pipeline as a state machine: the DataLoader samples items with *)
(* __getitem__, collates them, the step calls forward, validation_step     *)
(* then decodes output_ids as the reference text.                          *)
(***************************************************************************)
DataInit ==
    /\ tokenizer \in Tokenizers
    /\ max_input_len \in (MaxInputLen - 1)..MaxInputLen
    /\ max_output_len \in (MaxOutputLen - 1)..MaxOutputLen
    /\ batch = <<>>
    /\ input_ids = <<>>
    /\ output_ids = <<>>
    /\ attention_mask = <<>>
    /\ decoder_input_ids = <<>>
    /\ decoder_attention_mask = <<>>
    /\ labels = <<>>
    /\ gold_ids = <<>>
    /\ pc = "sample"

\* DataLoader: dataset[idx] for the next index of the batch
GetItem ==
    /\ pc = "sample"
    /\ Len(batch) < MaxBatchSize
    /\ \E entry \in Entries :
          batch' = Append(batch, getitem(entry, tokenizer, max_input_len,
                                         max_output_len))
    /\ UNCHANGED <<tokenizer, max_input_len, max_output_len, input_ids,
                   output_ids, attention_mask, decoder_input_ids,
                   decoder_attention_mask, labels, gold_ids, pc>>
    /\ UNCHANGED otherDataVars

\* DataLoader: collate_fn(batch) on a non-empty batch
CollateFn ==
    /\ pc = "sample"
    /\ batch # <<>>
    /\ input_ids' = collate_fn(batch)[1]
    /\ output_ids' = collate_fn(batch)[2]
    /\ pc' = "collated"
    /\ UNCHANGED <<tokenizer, max_input_len, max_output_len, batch,
                   attention_mask, decoder_input_ids, decoder_attention_mask,
                   labels, gold_ids>>
    /\ UNCHANGED otherDataVars

\* self.forward(*batch)
Forward ==
    /\ pc = "collated"
    /\ LET pad    == tokenizer.pad_token_id
           dec    == DecoderInputIds(output_ids)
           lab    == clone(LabelsSlice(output_ids))
           masked == MaskedFill(lab.data, pad)
       IN  /\ attention_mask' = AttentionMask(input_ids, pad)
           /\ decoder_input_ids' = dec
           /\ decoder_attention_mask' = DecoderAttentionMask(dec, pad)
           /\ labels' = masked
           /\ output_ids' = WriteThrough(output_ids, lab, masked)
    /\ pc' = "forwarded"
    /\ UNCHANGED <<tokenizer, max_input_len, max_output_len, batch, input_ids,
                   gold_ids>>
    /\ UNCHANGED otherDataVars

\* validation_step after forward: output_ids goes to batch_decode
DecodeGold ==
    /\ pc = "forwarded"
    /\ gold_ids' = output_ids
    /\ pc' = "decoded"
    /\ UNCHANGED <<tokenizer, max_input_len, max_output_len, batch, input_ids,
                   output_ids, attention_mask, decoder_input_ids,
                   decoder_attention_mask, labels>>
    /\ UNCHANGED otherDataVars

\* the DataLoader moves on to the next batch
NextBatch ==
    /\ pc = "decoded"
    /\ batch' = <<>>
    /\ input_ids' = <<>>
    /\ output_ids' = <<>>
    /\ attention_mask' = <<>>
    /\ decoder_input_ids' = <<>>
    /\ decoder_attention_mask' = <<>>
    /\ labels' = <<>>
    /\ gold_ids' = <<>>
    /\ pc' = "sample"
    /\ UNCHANGED <<tokenizer, max_input_len, max_output_len>>
    /\ UNCHANGED otherDataVars

DataNext == GetItem \/ CollateFn \/ Forward \/ DecodeGold \/ NextBatch

(***************************************************************************)
(* Exact rationals <<n, d>> with d > 0, kept in lowest terms.              *)
(***************************************************************************)
Abs(x) == IF x < 0 THEN 0 - x ELSE x

RECURSIVE Gcd(_, _)
Gcd(a, b) == IF b = 0 THEN a ELSE Gcd(b, a % b)

Rat(n, d) ==
    LET g == Gcd(Abs(n), d) IN <<n \div g, d \div g>>

RatZero == <<0, 1>>

RatAdd(x, y) == Rat(x[1] * y[2] + y[1] * x[2], x[2] * y[2])

RatDivInt(x, k) == Rat(x[1], x[2] * k)

\* the running total of a Python loop: acc += s for s in scores
RECURSIVE RatSum(_)
RatSum(scores) ==
    IF scores = <<>> THEN RatZero
    ELSE RatAdd(RatSum(SubSeq(scores, 1, Len(scores) - 1)),
                scores[Len(scores)])

(***************************************************************************)
(* rouge_scorer.RougeScorer(['rouge1', 'rouge2', 'rougeL']).score(ref,     *)
(* pred): n-gram and longest-common-subsequence overlap, as an F-measure.  *)
(***************************************************************************)
Ngrams(words, n) ==
    [i \in 1..Max(0, Len(words) - n + 1) |-> SubSeq(words, i, i + n - 1)]

Count(seq, g) == Cardinality({i \in 1..Len(seq) : seq[i] = g})

RECURSIVE SumMinCount(_, _, _)
SumMinCount(grams, a, b) ==
    IF grams = {} THEN 0
    ELSE LET g == CHOOSE x \in grams : TRUE
         IN  Min(Count(a, g), Count(b, g)) + SumMinCount(grams \ {g}, a, b)

NgramOverlap(ref, pred, n) ==
    LET a == Ngrams(ref, n)
        b == Ngrams(pred, n)
    IN  SumMinCount({a[i] : i \in 1..Len(a)}, a, b)

RECURSIVE LcsLen(_, _)
LcsLen(a, b) ==
    IF a = <<>> \/ b = <<>> THEN 0
    ELSE IF Head(a) = Head(b) THEN 1 + LcsLen(Tail(a), Tail(b))
    ELSE Max(LcsLen(Tail(a), b), LcsLen(a, Tail(b)))

\* 2PR / (P + R) with P = overlap / n_pred and R = overlap / n_ref, and 0
\* when there is no overlap
Fmeasure(overlap, n_ref, n_pred) ==
    IF overlap = 0 THEN RatZero ELSE Rat(2 * overlap, n_ref + n_pred)

\* reference texts (never empty) and generated texts, as word sequences
GoldTexts == SeqsUpTo(ArticleWords, MaxTextLen) \ {<<>>}
GeneratedTexts == SeqsUpTo(AbstractWords, MaxTextLen)

\* scorer.score(ref, pred), as a table over the texts of the model
\* (@@ <<>> makes TLC tabulate the function once instead of on every use)
score ==
    [ref \in GoldTexts, pred \in GeneratedTexts |->
        [rouge1 |-> Fmeasure(NgramOverlap(ref, pred, 1), Len(ref), Len(pred)),
         rouge2 |-> Fmeasure(NgramOverlap(ref, pred, 2),
                             Len(Ngrams(ref, 2)), Len(Ngrams(pred, 2))),
         rougeL |-> Fmeasure(LcsLen(ref, pred), Len(ref), Len(pred))]] @@ <<>>

RougeNames == {"rouge1", "rouge2", "rougeL"}

(***************************************************************************)
(* Summarizer.validation_step: the ROUGE average of the batch.             *)
(***************************************************************************)
\* zip(gold_str, generated_str): pairs up to the shorter of the two
ExampleScores(gold, gen, name) ==
    [i \in 1..Min(Len(gold), Len(gen)) |-> score[gold[i], gen[i]][name]]

BatchRouge_not_averaged(gold, gen, name) ==
    RatSum(ExampleScores(gold, gen, name))

\* rouge = 0.0; for ...: rouge += fmeasure; rouge /= len(generated_str)
BatchRouge(gold, gen, name) ==
    RatDivInt(RatSum(ExampleScores(gold, gen, name)), Len(gen))

RougeInit ==
    /\ gold_str = <<>>
    /\ generated_str = <<>>
    /\ step_out = [name \in RougeNames |-> RatZero]
    /\ vpc = "idle"

\* validation_step on a batch of n examples: generate returns one sequence
\* per input row, so both decoded lists have n texts
ValidationStep ==
    /\ vpc = "idle"
    /\ \E n \in 1..MaxBatchSize :
       \E gold \in [1..n -> GoldTexts], gen \in [1..n -> GeneratedTexts] :
          /\ gold_str' = gold
          /\ generated_str' = gen
          /\ step_out' = [name \in RougeNames |-> BatchRouge(gold, gen, name)]
    /\ vpc' = "scored"
    /\ UNCHANGED otherRougeVars

\* the trainer collects the step's output and moves to the next batch
StepReturned ==
    /\ vpc = "scored"
    /\ gold_str' = <<>>
    /\ generated_str' = <<>>
    /\ step_out' = [name \in RougeNames |-> RatZero]
    /\ vpc' = "idle"
    /\ UNCHANGED otherRougeVars

RougeNext == ValidationStep \/ StepReturned

(***************************************************************************)
(* Summarizer.validation_epoch_end, run by every distributed worker on the *)
(* outputs of its own validation steps.  torch.distributed.all_reduce is a *)
(* collective: a worker blocks in it until every worker has contributed,   *)
(* then its tensor holds the sum.                                          *)
(***************************************************************************)
MaxMetric    == 1      \* per-batch metric values lie in 0..MaxMetric + 1
MaxWorldSize == 2      \* largest trainer.world_size tried

\* validation batches per worker (the DistributedSampler gives every worker
\* the same number of samples)
BatchCounts == {1, 2}

names == <<"vloss", "rouge1", "rouge2", "rougeL">>

\* per-batch outputs of validation_step, in whole metric units
BatchOutputs ==
    {[vloss |-> MaxMetric + 1 - q, rouge1 |-> q + 1, rouge2 |-> q, rougeL |-> q + 1] :
        q \in 0..MaxMetric}

Workers == 1..world_size

RECURSIVE SumInts(_)
SumInts(s) == IF s = <<>> THEN 0 ELSE Head(s) + SumInts(Tail(s))

\* torch.stack([x[name] for x in outputs]).mean()
StackMean(outs, name) ==
    Rat(SumInts([b \in 1..Len(outs) |-> outs[b][name]]), Len(outs))

\* all_reduce(metric, op=SUM): the sum of the contributions of all ranks
RECURSIVE ReduceSum(_, _)
ReduceSum(buf, n) ==
    IF n = 0 THEN RatZero ELSE RatAdd(ReduceSum(buf, n - 1), buf[n])

not_divided(m, ws) == m

\* metric /= self.trainer.world_size
divide_by_world_size(m, ws) == RatDivInt(m, ws)

\* logs = dict(zip(names, metrics)); the returned dictionary
EpochResult(ms) ==
    LET logs == [name \in {names[i] : i \in 1..Len(names)} |->
                    ms[CHOOSE i \in 1..Len(names) : names[i] = name]]
    IN  [avg_val_loss |-> logs["vloss"], log |-> logs, progress_bar |-> logs]

NoResult == [avg_val_loss |-> RatZero, log |-> <<>>, progress_bar |-> <<>>]

EpochInit ==
    /\ use_ddp \in BOOLEAN
    /\ world_size \in 1..MaxWorldSize
    /\ ~use_ddp => world_size = 1
    /\ \E nb \in BatchCounts :
          outputs \in [1..world_size -> [1..nb -> BatchOutputs]]
    /\ wpc = [w \in 1..world_size |-> "mean"]
    /\ name_idx = [w \in 1..world_size |-> 1]
    /\ metric = [w \in 1..world_size |-> RatZero]
    /\ metrics = [w \in 1..world_size |-> <<>>]
    /\ reduce_buf = [k \in 1..Len(names) |-> [w \in 1..world_size |-> <<>>]]
    /\ result = [w \in 1..world_size |-> NoResult]

\* not use_ddp: the whole handler runs without blocking
EpochEndLocal(w) ==
    /\ ~use_ddp
    /\ wpc[w] = "mean"
    /\ LET ms == [k \in 1..Len(names) |-> StackMean(outputs[w], names[k])]
       IN  /\ metrics' = [metrics EXCEPT ![w] = ms]
           /\ metric' = [metric EXCEPT ![w] = ms[Len(names)]]
           /\ result' = [result EXCEPT ![w] = EpochResult(ms)]
    /\ name_idx' = [name_idx EXCEPT ![w] = Len(names) + 1]
    /\ wpc' = [wpc EXCEPT ![w] = "done"]
    /\ UNCHANGED <<use_ddp, world_size, outputs, reduce_buf>>
    /\ UNCHANGED otherEpochVars

\* use_ddp: the mean of the next name, then the worker enters all_reduce
AllReduceEnter(w) ==
    /\ use_ddp
    /\ wpc[w] = "mean"
    /\ LET k == name_idx[w]
           m == StackMean(outputs[w], names[k])
       IN  /\ metric' = [metric EXCEPT ![w] = m]
           /\ reduce_buf' = [reduce_buf EXCEPT ![k][w] = m]
    /\ wpc' = [wpc EXCEPT ![w] = "all_reduce"]
    /\ UNCHANGED <<use_ddp, world_size, outputs, name_idx, metrics, result>>
    /\ UNCHANGED otherEpochVars

\* every rank has contributed: all_reduce returns, the sum is divided and
\* appended; after the last name the handler returns its dictionary
AllReduceReturn(w) ==
    /\ use_ddp
    /\ wpc[w] = "all_reduce"
    /\ LET k == name_idx[w] IN
       /\ \A v \in Workers : reduce_buf[k][v] # <<>>
       /\ LET m  == divide_by_world_size(ReduceSum(reduce_buf[k], world_size),
                                         world_size)
              ms == Append(metrics[w], m)
          IN  /\ metric' = [metric EXCEPT ![w] = m]
              /\ metrics' = [metrics EXCEPT ![w] = ms]
              /\ name_idx' = [name_idx EXCEPT ![w] = k + 1]
              /\ IF k = Len(names)
                 THEN /\ result' = [result EXCEPT ![w] = EpochResult(ms)]
                      /\ wpc' = [wpc EXCEPT ![w] = "done"]
                 ELSE /\ result' = result
                      /\ wpc' = [wpc EXCEPT ![w] = "mean"]
    /\ UNCHANGED <<use_ddp, world_size, outputs, reduce_buf>>
    /\ UNCHANGED otherEpochVars

EpochNext ==
    \/ \E w \in Workers : EpochEndLocal(w)
    \/ \E w \in Workers : AllReduceEnter(w)
    \/ \E w \in Workers : AllReduceReturn(w)

(***************************************************************************)
(* The ModelCheckpoint callback main configures: save_top_k=5,             *)
(* monitor='avg_val_loss', mode='min'.  After every validation epoch the   *)
(* trainer hands it that epoch's avg_val_loss.                             *)
(***************************************************************************)
MaxValEpochs == 7      \* validation epochs of a run
MaxLoss      == 3      \* avg_val_loss values are drawn from 1..MaxLoss

save_top_k == 5

mode_max == "max"

mode == "min"

\* mode='min': a value is better when it is lower
monitor_op(mo, current, other) ==
    IF mo = "min" THEN current < other ELSE current > other

\* the kept checkpoint that any other kept one is at least as good as;
\* among equals the oldest
kth_best_model(kept, mo) ==
    CHOOSE c \in kept :
        \A d \in kept :
            /\ ~monitor_op(mo, c.loss, d.loss)
            /\ (d.loss = c.loss => c.id <= d.id)

\* ModelCheckpoint at the end of a validation epoch: keep up to save_top_k
\* checkpoints; once full, a new one replaces the worst kept one when it
\* is better than it
on_validation_end(kept, id, current) ==
    IF Cardinality(kept) < save_top_k
    THEN kept \cup {[id |-> id, loss |-> current]}
    ELSE IF monitor_op(mode, current, kth_best_model(kept, mode).loss)
         THEN (kept \ {kth_best_model(kept, mode)})
                  \cup {[id |-> id, loss |-> current]}
         ELSE kept

CkptInit ==
    /\ disable_checkpointing \in BOOLEAN
    /\ best_k_models = {}
    /\ seen_losses = <<>>

\* a validation epoch ends with avg_val_loss = loss; checkpoint_callback is
\* the ModelCheckpoint unless --disable_checkpointing
ValidationEnd ==
    /\ Len(seen_losses) < MaxValEpochs
    /\ \E loss \in 1..MaxLoss :
          /\ seen_losses' = Append(seen_losses, loss)
          /\ best_k_models' =
                IF disable_checkpointing THEN best_k_models
                ELSE on_validation_end(best_k_models, Len(seen_losses) + 1, loss)
    /\ UNCHANGED disable_checkpointing
    /\ UNCHANGED otherCkptVars

CkptNext == ValidationEnd

(***************************************************************************)
(* main: fit unless --test, then test.  Nothing in main or in the hooks    *)
(* catches an exception: one raised by a step leaves main.                 *)
(***************************************************************************)
MaxEpochs == 3         \* largest args.epochs tried
MaxSteps  == 3         \* batches of an epoch or of the test set

\* if not args.test: trainer.fit(model)
runs_fit_always(test_flag) == TRUE

runs_fit(test_flag) == ~test_flag

\* where control is after a step raised in phase ph: no try/except, the
\* exception leaves main and the process ends
after_raise_swallowed(ph) == IF ph = "fit" THEN "fit_returned" ELSE "done"

after_raise(ph) == "failed"

MainInit ==
    /\ test_only \in BOOLEAN
    /\ max_epochs \in 1..MaxEpochs
    /\ phase = "main"
    /\ started = <<>>
    /\ executed = <<>>
    /\ epoch = 0
    /\ fit_done = FALSE
    /\ raised = "none"

\* trainer.fit(model) is called
StartFit ==
    /\ phase = "main"
    /\ runs_fit(test_only)
    /\ phase' = "fit"
    /\ started' = Append(started, "fit")
    /\ UNCHANGED <<test_only, max_epochs, executed, epoch, fit_done, raised>>
    /\ UNCHANGED otherMainVars

StepsOf(ph, ep) == Len(SelectSeq(executed, LAMBDA s : s[1] = ph /\ s[2] = ep))

\* a training or validation step of the current epoch returns
FitStep ==
    /\ phase = "fit"
    /\ epoch < max_epochs
    /\ StepsOf("fit", epoch) < MaxSteps
    /\ executed' = Append(executed, <<"fit", epoch, StepsOf("fit", epoch)>>)
    /\ UNCHANGED <<test_only, max_epochs, phase, started, epoch, fit_done, raised>>
    /\ UNCHANGED otherMainVars

\* the epoch is over
FitEpochEnd ==
    /\ phase = "fit"
    /\ epoch < max_epochs
    /\ StepsOf("fit", epoch) = MaxSteps
    /\ epoch' = epoch + 1
    /\ UNCHANGED <<test_only, max_epochs, phase, started, executed, fit_done, raised>>
    /\ UNCHANGED otherMainVars

\* a step of fit raises (out of memory, a malformed batch, generation)
FitRaise ==
    /\ phase = "fit"
    /\ epoch < max_epochs
    /\ StepsOf("fit", epoch) < MaxSteps
    /\ executed' = Append(executed, <<"fit", epoch, StepsOf("fit", epoch)>>)
    /\ raised' = "fit"
    /\ phase' = after_raise("fit")
    /\ UNCHANGED <<test_only, max_epochs, started, epoch, fit_done>>
    /\ UNCHANGED otherMainVars

\* trainer.fit returns after max_epochs epochs
FitReturn ==
    /\ phase = "fit"
    /\ epoch = max_epochs
    /\ fit_done' = TRUE
    /\ phase' = "fit_returned"
    /\ UNCHANGED <<test_only, max_epochs, started, executed, epoch, raised>>
    /\ UNCHANGED otherMainVars

\* trainer.test(model) is called
StartTest ==
    /\ \/ phase = "fit_returned"
       \/ phase = "main" /\ ~runs_fit(test_only)
    /\ phase' = "test"
    /\ started' = Append(started, "test")
    /\ epoch' = 0
    /\ UNCHANGED <<test_only, max_epochs, executed, fit_done, raised>>
    /\ UNCHANGED otherMainVars

\* test_step returns
TestStep ==
    /\ phase = "test"
    /\ StepsOf("test", 0) < MaxSteps
    /\ executed' = Append(executed, <<"test", 0, StepsOf("test", 0)>>)
    /\ UNCHANGED <<test_only, max_epochs, phase, started, epoch, fit_done, raised>>
    /\ UNCHANGED otherMainVars

\* test_step raises
TestRaise ==
    /\ phase = "test"
    /\ StepsOf("test", 0) < MaxSteps
    /\ executed' = Append(executed, <<"test", 0, StepsOf("test", 0)>>)
    /\ raised' = "test"
    /\ phase' = after_raise("test")
    /\ UNCHANGED <<test_only, max_epochs, started, epoch, fit_done>>
    /\ UNCHANGED otherMainVars

\* trainer.test returns and main with it
TestReturn ==
    /\ phase = "test"
    /\ StepsOf("test", 0) = MaxSteps
    /\ phase' = "done"
    /\ UNCHANGED <<test_only, max_epochs, started, executed, epoch, fit_done, raised>>
    /\ UNCHANGED otherMainVars

MainNext ==
    \/ StartFit \/ FitStep \/ FitEpochEnd \/ FitRaise \/ FitReturn
    \/ StartTest \/ TestStep \/ TestRaise \/ TestReturn

(***************************************************************************)
(* Properties of the data pipeline (SpecData).                             *)
(***************************************************************************)
Rows(t) == 1..Len(t)

\* row r of tensor t is the sequence s followed only by the value v
RightPadded(row, s, v) ==
    /\ Len(row) >= Len(s)
    /\ SubSeq(row, 1, Len(s)) = s
    /\ \A j \in (Len(s) + 1)..Len(row) : row[j] = v

\* tensor t has one row per item, all rows as long as the longest item
RectangularOver(t, items) ==
    /\ Len(t) = Len(items)
    /\ \E r \in Rows(items) : \A q \in Rows(t) : Len(t[q]) = Len(items[r])
    /\ \A r \in Rows(items) : Len(items[r]) <= Len(t[r])

\* C2: collate_fn on a non-empty batch returns two rectangular tensors with
\* one row per example; every row has the length of the longest sequence of
\* its field and is the original sequence followed only by the pad value 1.
C2_CollateRectangular ==
    pc = "collated" =>
        /\ batch # <<>>
        /\ \A k \in {1, 2} :
              LET t == IF k = 1 THEN input_ids ELSE output_ids
                  items == Column(batch, k)
              IN  /\ RectangularOver(t, items)
                  /\ \A r \in Rows(t) : RightPadded(t[r], items[r], 1)

\* a collated batch of two rows of different lengths: one row is padded
C2_Witness ==
    /\ pc = "collated"
    /\ Len(batch) >= 2
    /\ \E r, q \in Rows(batch) : Len(batch[r][2]) < Len(batch[q][2])
    /\ \E r, q \in Rows(batch) : Len(batch[r][1]) < Len(batch[q][1])

\* C6: every item __getitem__ returns has an input sequence of at most
\* max_input_len tokens and an output sequence of at most max_output_len
\* tokens, each field cut to its own limit.
C6_TruncatedToMax ==
    \A r \in Rows(batch) :
        /\ Len(batch[r][1]) <= max_input_len
        /\ Len(batch[r][2]) <= max_output_len

\* an item whose input is longer than the output limit allows, and whose
\* output fills its own limit
C6_Witness ==
    \E r \in Rows(batch) :
        /\ Len(batch[r][1]) = max_input_len
        /\ Len(batch[r][2]) = max_output_len
        /\ max_input_len > max_output_len

\* the positions of row r of output_ids that the collator added
PaddingPositions(r) == (Len(batch[r][2]) + 1)..Len(output_ids[r])

\* C1: after forward, with the tokenizer selected by --tokenizer, every label
\* position that holds padding added by the collator carries -100 (label j-1
\* is the target at position j).
C1_PaddingIgnored ==
    pc = "forwarded" =>
        \A r \in Rows(output_ids) :
            \A j \in PaddingPositions(r) : labels[r][j - 1] = IGNORE_INDEX

\* C8: with L the length of the target rows, decoder inputs are target
\* positions 0..L-2 and labels are target positions 1..L-1, so label t is the
\* target token after decoder input t, replaced by -100 when it is the
\* tokenizer's pad token id; the decoder attention mask is true exactly where
\* the decoder input differs from the pad token id.
C8_TeacherForcingShift ==
    pc = "forwarded" =>
        /\ Len(decoder_input_ids) = Len(output_ids)
        /\ Len(labels) = Len(output_ids)
        /\ Len(decoder_attention_mask) = Len(output_ids)
        /\ \A r \in Rows(output_ids) :
              LET target == collate_fn(batch)[2][r]
                  L == Len(target)
                  pad == tokenizer.pad_token_id
              IN  /\ Len(decoder_input_ids[r]) = L - 1
                  /\ Len(labels[r]) = L - 1
                  /\ Len(decoder_attention_mask[r]) = L - 1
                  /\ \A t \in 1..(L - 1) :
                        /\ decoder_input_ids[r][t] = target[t]
                        /\ labels[r][t] =
                              IF target[t + 1] = pad THEN IGNORE_INDEX
                              ELSE target[t + 1]
                        /\ decoder_attention_mask[r][t] =
                              (decoder_input_ids[r][t] # pad)

\* forward has run on a batch where some label was masked, some was not, and
\* the decoder mask is false somewhere
C8_Witness ==
    /\ pc = "forwarded"
    /\ \E r \in Rows(labels) : \E t \in 1..Len(labels[r]) :
          labels[r][t] = IGNORE_INDEX
    /\ \E r \in Rows(labels) : \E t \in 1..Len(labels[r]) :
          labels[r][t] \in AbstractWords
    /\ \E r \in Rows(labels) : \E t \in 1..Len(labels[r]) :
          ~decoder_attention_mask[r][t]

\* C10: forward leaves the batch tensors unchanged: after it returns,
\* input_ids and output_ids are what the collator produced, and the ids
\* validation_step decodes as the reference hold no -100.
C10_ForwardKeepsBatch ==
    /\ pc \in {"forwarded", "decoded"} =>
          /\ input_ids = collate_fn(batch)[1]
          /\ output_ids = collate_fn(batch)[2]
    /\ pc = "decoded" =>
          /\ gold_ids = collate_fn(batch)[2]
          /\ \A r \in Rows(gold_ids) : \A j \in 1..Len(gold_ids[r]) :
                gold_ids[r][j] # IGNORE_INDEX

\* the reference ids are decoded after a forward that masked a label
C10_Witness ==
    /\ pc = "decoded"
    /\ \E r \in Rows(labels) : \E t \in 1..Len(labels[r]) :
          labels[r][t] = IGNORE_INDEX
    /\ \E r \in Rows(gold_ids) : \E j \in 2..Len(gold_ids[r]) :
          gold_ids[r][j] = tokenizer.pad_token_id

(***************************************************************************)
(* Properties of validation_step's ROUGE average (SpecRouge).              *)
(***************************************************************************)
\* the sum of the fractions fs as one fraction, not reduced
RECURSIVE CrossSum(_)
CrossSum(fs) ==
    IF fs = <<>> THEN <<0, 1>>
    ELSE LET rest == CrossSum(Tail(fs))
             f == Head(fs)
         IN  <<f[1] * rest[2] + rest[1] * f[2], f[2] * rest[2]>>

IdenticalPairs ==
    \A i \in 1..Len(gold_str) :
        gold_str[i] = gold_str[1] /\ generated_str[i] = generated_str[1]

\* C5: each ROUGE metric of the batch is the sum of the per-example
\* F-measures divided by the number of examples of the batch; for a batch of
\* N >= 1 identical (reference, prediction) pairs it is the single-example
\* score.
C5_BatchRougeIsMean ==
    vpc = "scored" =>
        \A name \in RougeNames :
            LET n   == Len(gold_str)
                fs  == [i \in 1..n |-> score[gold_str[i], generated_str[i]][name]]
                tot == CrossSum(fs)
                m   == step_out[name]
            IN  /\ Len(generated_str) = n
                /\ m[1] * n * tot[2] = m[2] * tot[1]
                /\ IdenticalPairs => m = score[gold_str[1], generated_str[1]][name]

\* a batch of several identical pairs whose score is a proper fraction
C5_Witness ==
    /\ vpc = "scored"
    /\ Len(gold_str) >= 2
    /\ IdenticalPairs
    /\ step_out["rouge1"][1] > 0
    /\ step_out["rouge1"][1] < step_out["rouge1"][2]

(***************************************************************************)
(* Properties of validation_epoch_end (SpecEpoch).                         *)
(***************************************************************************)
RECURSIVE SumOver(_, _, _)
SumOver(ws, outs, name) ==
    IF ws = {} THEN 0
    ELSE LET w == CHOOSE x \in ws : TRUE
         IN  SumInts([b \in 1..Len(outs[w]) |-> outs[w][b][name]])
                 + SumOver(ws \ {w}, outs, name)

\* C3: at the end of a validation epoch every reported metric is the mean of
\* the per-batch values; under distributed training the per-worker means are
\* summed over all workers and divided by the worker count, so every worker
\* reports the same value, and avg_val_loss is the reduced vloss.
C3_EpochMetricsAveraged ==
    \A w \in Workers :
        wpc[w] = "done" =>
            /\ \A k \in 1..Len(names) :
                  LET m     == result[w].log[names[k]]
                      from  == IF use_ddp THEN Workers ELSE {w}
                      total == SumOver(from, outputs, names[k])
                      count == Len(outputs[w]) * Cardinality(from)
                  IN  m[1] * count = m[2] * total
            /\ result[w].avg_val_loss = result[w].log["vloss"]
            /\ \A v \in Workers : wpc[v] = "done" => result[v] = result[w]

\* two workers with different local vloss means have both reported
C3_Witness ==
    /\ use_ddp
    /\ world_size >= 2
    /\ \A w \in Workers : wpc[w] = "done"
    /\ StackMean(outputs[1], "vloss") # StackMean(outputs[2], "vloss")
    /\ Len(outputs[1]) >= 2

(***************************************************************************)
(* Properties of the checkpoint retention (SpecCkpt).                      *)
(***************************************************************************)
SeenWith(v) == Cardinality({i \in 1..Len(seen_losses) : seen_losses[i] = v})

SeenBelow(v) == Cardinality({i \in 1..Len(seen_losses) : seen_losses[i] < v})

KeptWith(v) == Cardinality({c \in best_k_models : c.loss = v})

\* C4: with checkpointing enabled, after any sequence of validation epochs at
\* most 5 checkpoints are kept, and their losses are the 5 lowest
\* avg_val_loss values seen so far.
C4_TopFiveKept ==
    ~disable_checkpointing =>
        /\ Cardinality(best_k_models) <= 5
        /\ \A c \in best_k_models :
              c.id \in 1..Len(seen_losses) /\ seen_losses[c.id] = c.loss
        /\ \A v \in 1..MaxLoss :
              KeptWith(v) = Min(SeenWith(v), Max(0, 5 - SeenBelow(v)))

\* more than 5 validation epochs: one late checkpoint evicted an earlier one
\* and another late one was not kept
C4_Witness ==
    /\ ~disable_checkpointing
    /\ Len(seen_losses) > 5
    /\ \E c \in best_k_models : c.id > 5
    /\ \E i \in 6..Len(seen_losses) : \A c \in best_k_models : c.id # i

(***************************************************************************)
(* Properties of main (SpecMain).                                          *)
(***************************************************************************)
TimesStarted(ph) == Len(SelectSeq(started, LAMBDA x : x = ph))

NoStepTwice ==
    \A i, j \in 1..Len(executed) : i # j => executed[i] # executed[j]

\* C7: no retries and no recovery: a failure raised during training or
\* testing ends the run in a failed state where nothing more happens, no step
\* is attempted twice, and after a failed training phase the test phase is
\* never started.
C7_FailureIsFatal ==
    /\ raised # "none" => phase = "failed"
    /\ phase = "failed" => ~ENABLED MainNext
    /\ NoStepTwice
    /\ raised = "fit" => TimesStarted("test") = 0

\* a training step raised after earlier steps had succeeded
C7_Witness ==
    /\ raised = "fit"
    /\ phase = "failed"
    /\ Len(executed) >= 2

\* C9: the test phase is started exactly once per successful run and is the
\* last phase: without --test, fit runs to completion before the test phase
\* starts; with --test, fit is never started and only the test phase runs.
C9_TestOnceAndLast ==
    /\ TimesStarted("test") <= 1
    /\ phase = "done" =>
          /\ TimesStarted("test") = 1
          /\ started[Len(started)] = "test"
    /\ test_only => TimesStarted("fit") = 0
    /\ (~test_only /\ TimesStarted("test") = 1) =>
          /\ started = <<"fit", "test">>
          /\ fit_done
          /\ Len(SelectSeq(executed, LAMBDA x : x[1] = "fit"))
                = max_epochs * MaxSteps

\* a run without --test has finished after several epochs of training
C9_Witness ==
    /\ phase = "done"
    /\ ~test_only
    /\ max_epochs >= 2

\* a run with --test has finished
C9_WitnessTestOnly == phase = "done" /\ test_only

(***************************************************************************)
(* Specifications, one per part of the script.  The parts share no state:  *)
(* while one part runs the others rest in a fixed initial state.           *)
(***************************************************************************)
DataIdle ==
    /\ DataInit
    /\ tokenizer = BartTokenizer
    /\ max_input_len = MaxInputLen
    /\ max_output_len = MaxOutputLen

EpochIdle ==
    /\ EpochInit
    /\ ~use_ddp
    /\ outputs = [w \in {1} |-> [b \in {1} |-> CHOOSE o \in BatchOutputs : TRUE]]

CkptIdle == CkptInit /\ disable_checkpointing

MainIdle == MainInit /\ test_only /\ max_epochs = 1

InitData == DataInit /\ RougeInit /\ EpochIdle /\ CkptIdle /\ MainIdle

InitRouge == DataIdle /\ RougeInit /\ EpochIdle /\ CkptIdle /\ MainIdle

InitEpoch == DataIdle /\ RougeInit /\ EpochInit /\ CkptIdle /\ MainIdle

InitCkpt == DataIdle /\ RougeInit /\ EpochIdle /\ CkptInit /\ MainIdle

InitMain == DataIdle /\ RougeInit /\ EpochIdle /\ CkptIdle /\ MainInit

SpecData == InitData /\ [][DataNext]_vars

SpecRouge == InitRouge /\ [][RougeNext]_vars

SpecEpoch == InitEpoch /\ [][EpochNext]_vars

SpecCkpt == InitCkpt /\ [][CkptNext]_vars

SpecMain == InitMain /\ [][MainNext]_vars
====
